---- MODULE Spec2Model ----
(***************************************************************************)
(* Model of zellij-utils/src/input/actions.rs: the Action vocabulary and   *)
(* Action::actions_from_cli, the resolver that turns one CliAction into an *)
(* ordered Vec<Action> or an error string.                                 *)
(*                                                                         *)
(* A state is the outcome of the most recent call of actions_from_cli:     *)
(* the command and the environment it ran in, the Result it returned, the  *)
(* values the injected get_current_dir closure returned during the call    *)
(* and the arguments of the calls made to the layout loader; or the two    *)
(* Actions given to the most recent call of Action::shallow_eq and what it *)
(* returned.                                                               *)
(***************************************************************************)
EXTENDS Naturals, Sequences, FiniteSets, TLC

VARIABLES cli_action, env, result, provider_log, loader_log, shallow_args,
          shallow_result

vars == <<cli_action, env, result, provider_log, loader_log, shallow_args,
          shallow_result>>

(***************************************************************************)
(* Bounds of the model.                                                    *)
(***************************************************************************)
\* longest name (in characters) given to rename-pane / rename-tab
MaxNameLen == 2
\* longest command line (in tokens) given to new-pane
MaxTokens == 3
\* largest number of tabs a parsed layout defines
MaxTabs == 2
\* deepest nesting of SkipConfirm around an Action given to shallow_eq
MaxNesting == 1

(***************************************************************************)
(* Option<T>: None is the empty sequence, Some(x) the one-element one.     *)
(***************************************************************************)
None == <<>>
Some(x) == <<x>>
IsSome(o) == Len(o) = 1
IsNone(o) == Len(o) = 0
Unwrap(o) == o[1]
\* Option::or: self if it is Some, else the argument
OptOr(o, other) == IF IsSome(o) THEN o ELSE other
OptionOf(S) == {None} \cup {Some(x) : x \in S}

\* all sequences over S of length at most n
RECURSIVE SeqsUpTo(_, _)
SeqsUpTo(S, n) ==
    IF n = 0 THEN {<<>>}
    ELSE LET shorter == SeqsUpTo(S, n - 1)
         IN  shorter \cup {Append(s, x) : s \in {t \in shorter : Len(t) = n - 1}, x \in S}

(***************************************************************************)
(* Strings are sequences of Unicode code points; String::as_bytes is their *)
(* UTF-8 encoding.  The alphabet holds NUL, two ASCII letters and one      *)
(* two-byte character.                                                     *)
(***************************************************************************)
Chars == {0, 97, 233}
Strings == SeqsUpTo(Chars, MaxNameLen)

Utf8(c) == IF c < 128 THEN <<c>> ELSE <<192 + (c \div 64), 128 + (c % 64)>>

RECURSIVE as_bytes(_)
as_bytes(s) == IF s = <<>> THEN <<>> ELSE Utf8(Head(s)) \o as_bytes(Tail(s))

(***************************************************************************)
(* PathBuf: an absolute flag and the components.                           *)
(***************************************************************************)
Path(abs, comps) == [abs |-> abs, comps |-> comps]

is_relative(p) == ~p.abs

\* Path::join: an absolute child replaces the base, a relative one is
\* pushed under it
join(base, child) ==
    IF child.abs THEN child
    ELSE Path(base.abs, base.comps \o child.comps)

RECURSIVE JoinComps(_)
JoinComps(cs) ==
    IF cs = <<>> THEN ""
    ELSE IF Len(cs) = 1 THEN cs[1]
    ELSE cs[1] \o "/" \o JoinComps(Tail(cs))

\* path.as_os_str().to_string_lossy()
to_string_lossy(p) == (IF p.abs THEN "/" ELSE "") \o JoinComps(p.comps)

HomeU == Path(TRUE, <<"home", "u">>)
Root == Path(TRUE, <<>>)
\* what the injected get_current_dir may return: an absolute directory
CurrentDirs == {HomeU, Root}
RelDir == Path(FALSE, <<"proj">>)
AbsDir == Path(TRUE, <<"opt", "w">>)
CwdArgs == {None, Some(RelDir), Some(AbsDir)}
RelFile == Path(FALSE, <<"src", "main.txt">>)
AbsFile == Path(TRUE, <<"etc", "hosts">>)
Files == {RelFile, AbsFile}

Directions == {"Left", "Right", "Up", "Down"}
OptDirections == OptionOf(Directions)
PaneNames == OptionOf({<<97>>})

(***************************************************************************)
(* Result<Vec<Action>, String>.  An error string is kept as its literal    *)
(* text, the values format! interpolates into it ("shown") and the cause   *)
(* it renders.                                                             *)
(***************************************************************************)
Ok(actions) == [ok |-> TRUE, actions |-> actions]
Err(e) == [ok |-> FALSE, err |-> e]

\* what one run of a match arm did: the Result, the values get_current_dir
\* returned (one per invocation) and the loader calls made
Outcome(res, dirs, loads) == [result |-> res, provider |-> dirs, loader |-> loads]

(***************************************************************************)
(* CliAction arms that map 1:1 to one Action.                              *)
(***************************************************************************)
UnitVerbs == {
    "FocusNextPane", "FocusPreviousPane", "MovePaneBackwards", "Clear",
    "EditScrollback", "ScrollUp", "ScrollDown", "ScrollToBottom", "ScrollToTop",
    "PageScrollUp", "PageScrollDown", "HalfPageScrollUp", "HalfPageScrollDown",
    "ToggleFullscreen", "TogglePaneFrames", "ToggleActiveSyncTab",
    "TogglePaneEmbedOrFloating", "ToggleFloatingPanes", "ClosePane",
    "UndoRenamePane", "GoToNextTab", "GoToPreviousTab", "CloseTab",
    "UndoRenameTab", "PreviousSwapLayout", "NextSwapLayout", "QueryTabNames"}

\* the Action a payload-free CliAction becomes
UnitTag(verb) ==
    CASE verb = "Clear" -> "ClearScreen"
      [] verb = "ToggleFullscreen" -> "ToggleFocusFullscreen"
      [] verb = "ClosePane" -> "CloseFocus"
      [] OTHER -> verb

UnitCommands == {[verb |-> v] : v \in UnitVerbs}

PayloadCommands ==
    {[verb |-> "Write", bytes |-> b] : b \in {<<>>, <<0>>, <<97, 10>>}}
    \cup {[verb |-> "WriteChars", chars |-> s] : s \in {<<>>, <<97>>}}
    \cup {[verb |-> "Resize", resize |-> r, direction |-> d] :
             r \in {"Increase", "Decrease"}, d \in OptDirections}
    \cup {[verb |-> "MoveFocus", direction |-> d] : d \in Directions}
    \cup {[verb |-> "MoveFocusOrTab", direction |-> d] : d \in Directions}
    \cup {[verb |-> "MovePane", direction |-> d] : d \in OptDirections}
    \cup {[verb |-> "DumpScreen", path |-> p, full |-> f] : p \in Files, f \in BOOLEAN}
    \cup {[verb |-> "SwitchMode", input_mode |-> m] : m \in {"Normal", "Locked"}}
    \cup {[verb |-> "GoToTab", index |-> i] : i \in {0, 3}}
    \cup {[verb |-> "GoToTabName", name |-> n, create |-> c] :
             n \in {<<97>>}, c \in BOOLEAN}

SimpleCommands == UnitCommands \cup PayloadCommands

simple_arm(c) ==
    LET action ==
        CASE c.verb = "Write" -> [tag |-> "Write", bytes |-> c.bytes]
          [] c.verb = "WriteChars" -> [tag |-> "WriteChars", chars |-> c.chars]
          [] c.verb = "Resize" ->
                [tag |-> "Resize", resize |-> c.resize, direction |-> c.direction]
          [] c.verb = "MoveFocus" -> [tag |-> "MoveFocus", direction |-> c.direction]
          [] c.verb = "MoveFocusOrTab" ->
                [tag |-> "MoveFocusOrTab", direction |-> c.direction]
          [] c.verb = "MovePane" -> [tag |-> "MovePane", direction |-> c.direction]
          [] c.verb = "DumpScreen" ->
                [tag |-> "DumpScreen", path |-> to_string_lossy(c.path), full |-> c.full]
          [] c.verb = "SwitchMode" ->
                [tag |-> "SwitchModeForAllClients", input_mode |-> c.input_mode]
          [] c.verb = "GoToTab" -> [tag |-> "GoToTab", index |-> c.index]
          [] c.verb = "GoToTabName" ->
                [tag |-> "GoToTabName", name |-> c.name, create |-> c.create]
          [] OTHER -> [tag |-> UnitTag(c.verb)]
    IN  Outcome(Ok(<<action>>), <<>>, <<>>)

(***************************************************************************)
(* CliAction::RenamePane and CliAction::RenameTab.                         *)
(***************************************************************************)
RenameCommands ==
    {[verb |-> v, name |-> n] : v \in {"RenamePane", "RenameTab"}, n \in Strings}

rename_pane_arm(c) ==
    Outcome(Ok(<<[tag |-> "UndoRenamePane"],
                 [tag |-> "PaneNameInput", bytes |-> as_bytes(c.name)]>>),
            <<>>, <<>>)

\* mutant: the two tab-name inputs in the wrong order
rename_tab_arm_swapped(c) ==
    Outcome(Ok(<<[tag |-> "TabNameInput", bytes |-> as_bytes(c.name)],
                 [tag |-> "TabNameInput", bytes |-> <<0>>]>>),
            <<>>, <<>>)

rename_tab_arm(c) ==
    Outcome(Ok(<<[tag |-> "TabNameInput", bytes |-> <<0>>],
                 [tag |-> "TabNameInput", bytes |-> as_bytes(c.name)]>>),
            <<>>, <<>>)

(***************************************************************************)
(* RunPluginLocation::parse and the Display of its error.  A plugin        *)
(* location string is kept as its text together with what a URL parser     *)
(* reads in it: the scheme, if it has one, and the path.  A string without *)
(* a scheme is no URL: the error is the URL parser's, which tells what is  *)
(* wrong and does not repeat the string.  A URL whose scheme is neither    *)
(* file nor zellij is refused with an error that shows the URL.            *)
(***************************************************************************)
Location(text, scheme, path) == [text |-> text, scheme |-> scheme, path |-> path]

PluginStrings == {
    Location("file:/p.wasm", Some("file"), Path(TRUE, <<"p.wasm">>)),
    Location("file:p.wasm", Some("file"), Path(FALSE, <<"p.wasm">>)),
    Location("zellij:tab-bar", Some("zellij"), Path(FALSE, <<"tab-bar">>)),
    Location("http://x/p.wasm", Some("http"), Path(TRUE, <<"p.wasm">>)),
    Location("p.wasm", None, Path(FALSE, <<"p.wasm">>))}

POk(v) == [ok |-> TRUE, val |-> v]
PErr(e) == [ok |-> FALSE, err |-> e]

RunPluginLocation_parse(location, cwd) ==
    IF IsNone(location.scheme)
    THEN PErr([kind |-> "InvalidUrl", shown |-> {}])
    ELSE CASE Unwrap(location.scheme) = "zellij" ->
                POk([variant |-> "Zellij", tag |-> JoinComps(location.path.comps)])
           [] Unwrap(location.scheme) = "file" ->
                POk([variant |-> "File",
                     path |-> IF IsSome(cwd) THEN join(Unwrap(cwd), location.path)
                              ELSE location.path])
           [] OTHER ->
                PErr([kind |-> "InvalidUrlScheme", shown |-> {location.text}])

\* a plugin location string the parser rejects
Malformed(location) == ~RunPluginLocation_parse(location, None).ok

(***************************************************************************)
(* The working directory of NewPane, Edit and NewTab:                      *)
(*   cwd.map(|cwd| current_dir.join(cwd)).or_else(|| Some(current_dir))    *)
(***************************************************************************)
\* mutant: the override is taken as given, not joined under current_dir
resolve_cwd_no_join(cwd, current_dir) ==
    IF IsSome(cwd) THEN cwd ELSE Some(current_dir)

resolve_cwd(cwd, current_dir) ==
    IF IsSome(cwd) THEN Some(join(current_dir, Unwrap(cwd))) ELSE Some(current_dir)

(***************************************************************************)
(* CliAction::NewPane.                                                     *)
(***************************************************************************)
Tokens == {"/bin/sh", "-l"}
CommandLines == SeqsUpTo(Tokens, MaxTokens)

\* PathBuf::from of a command token
PathBuf_from(token) ==
    IF token = "/bin/sh" THEN Path(TRUE, <<"bin", "sh">>) ELSE Path(FALSE, <<token>>)

NewPaneCommands ==
    {[verb |-> "NewPane", direction |-> d, command |-> cl, plugin |-> pl, cwd |-> w,
      floating |-> f, name |-> n, close_on_exit |-> ce, start_suspended |-> ss] :
        d \in OptDirections, cl \in CommandLines, pl \in OptionOf(PluginStrings),
        w \in CwdArgs, f \in BOOLEAN, n \in PaneNames, ce \in BOOLEAN, ss \in BOOLEAN}

RunCommandAction(command, args, cwd, direction, hold_on_close, hold_on_start) ==
    [command |-> command, args |-> args, cwd |-> cwd, direction |-> direction,
     hold_on_close |-> hold_on_close, hold_on_start |-> hold_on_start]

new_pane_plugin_branch(c, cwd) ==
    LET plugin == Unwrap(c.plugin)
        parsed == RunPluginLocation_parse(plugin, cwd)
    IN  IF c.floating
        THEN IF ~parsed.ok
             THEN Err([text |-> "Failed to parse plugin loction {plugin}: {}",
                       shown |-> {plugin.text} \cup parsed.err.shown,
                       cause |-> parsed.err.kind])
             ELSE Ok(<<[tag |-> "NewFloatingPluginPane", plugin |-> parsed.val,
                        name |-> c.name]>>)
        ELSE IF ~parsed.ok
             THEN Err([text |-> "Failed to parse plugin location {plugin}: {}",
                       shown |-> {plugin.text} \cup parsed.err.shown,
                       cause |-> parsed.err.kind])
             ELSE Ok(<<[tag |-> "NewTiledPluginPane", plugin |-> parsed.val,
                        name |-> c.name]>>)

\* mutant: hold_on_close copies close_on_exit instead of negating it
new_pane_command_branch_hold(c, cwd) ==
    LET command == PathBuf_from(Head(c.command))
        args == Tail(c.command)
        run_command_action ==
            RunCommandAction(command, args, cwd, c.direction, c.close_on_exit,
                             c.start_suspended)
    IN  IF c.floating
        THEN Ok(<<[tag |-> "NewFloatingPane", run |-> Some(run_command_action),
                   name |-> c.name]>>)
        ELSE Ok(<<[tag |-> "NewTiledPane", direction |-> c.direction,
                   run |-> Some(run_command_action), name |-> c.name]>>)

new_pane_command_branch(c, cwd) ==
    LET command == PathBuf_from(Head(c.command))
        args == Tail(c.command)
        hold_on_start == c.start_suspended
        hold_on_close == ~c.close_on_exit
        run_command_action ==
            RunCommandAction(command, args, cwd, c.direction, hold_on_close, hold_on_start)
    IN  IF c.floating
        THEN Ok(<<[tag |-> "NewFloatingPane", run |-> Some(run_command_action),
                   name |-> c.name]>>)
        ELSE Ok(<<[tag |-> "NewTiledPane", direction |-> c.direction,
                   run |-> Some(run_command_action), name |-> c.name]>>)

\* mutant: an empty tiled pane built like a tiled plugin pane, without direction
new_pane_empty_branch_no_direction(c) ==
    IF c.floating
    THEN Ok(<<[tag |-> "NewFloatingPane", run |-> None, name |-> c.name]>>)
    ELSE Ok(<<[tag |-> "NewTiledPane", direction |-> None, run |-> None,
               name |-> c.name]>>)

new_pane_empty_branch(c) ==
    IF c.floating
    THEN Ok(<<[tag |-> "NewFloatingPane", run |-> None, name |-> c.name]>>)
    ELSE Ok(<<[tag |-> "NewTiledPane", direction |-> c.direction, run |-> None,
               name |-> c.name]>>)

\* mutant: the command line is looked at before the plugin
new_pane_arm_command_first(c, get_current_dir) ==
    LET current_dir == get_current_dir
        cwd == resolve_cwd(c.cwd, current_dir)
        res == IF c.command # <<>> THEN new_pane_command_branch(c, cwd)
               ELSE IF IsSome(c.plugin) THEN new_pane_plugin_branch(c, cwd)
               ELSE new_pane_empty_branch(c)
    IN  Outcome(res, <<current_dir>>, <<>>)

new_pane_arm(c, get_current_dir) ==
    LET current_dir == get_current_dir
        cwd == resolve_cwd(c.cwd, current_dir)
        res == IF IsSome(c.plugin) THEN new_pane_plugin_branch(c, cwd)
               ELSE IF c.command # <<>> THEN new_pane_command_branch(c, cwd)
               ELSE new_pane_empty_branch(c)
    IN  Outcome(res, <<current_dir>>, <<>>)

(***************************************************************************)
(* CliAction::Edit.                                                        *)
(***************************************************************************)
EditCommands ==
    {[verb |-> "Edit", direction |-> d, file |-> fl, line_number |-> ln,
      floating |-> f, cwd |-> w] :
        d \in OptDirections, fl \in Files, ln \in OptionOf({10}), f \in BOOLEAN,
        w \in CwdArgs}

edit_file(file, cwd) ==
    IF is_relative(file) /\ IsSome(cwd) THEN join(Unwrap(cwd), file) ELSE file

\* mutant: get_current_dir is invoked again to anchor the file
edit_arm_two_lookups(c, get_current_dir) ==
    LET current_dir == get_current_dir
        cwd == resolve_cwd(c.cwd, current_dir)
        file == edit_file(c.file, cwd)
    IN  Outcome(Ok(<<[tag |-> "EditFile", file |-> file, line_number |-> c.line_number,
                      cwd |-> cwd, direction |-> c.direction, floating |-> c.floating]>>),
                <<current_dir, get_current_dir>>, <<>>)

edit_arm(c, get_current_dir) ==
    LET current_dir == get_current_dir
        cwd == resolve_cwd(c.cwd, current_dir)
        file == edit_file(c.file, cwd)
    IN  Outcome(Ok(<<[tag |-> "EditFile", file |-> file, line_number |-> c.line_number,
                      cwd |-> cwd, direction |-> c.direction, floating |-> c.floating]>>),
                <<current_dir>>, <<>>)

(***************************************************************************)
(* CliAction::StartOrReloadPlugin and CliAction::LaunchOrFocusPlugin.      *)
(***************************************************************************)
PluginCommands ==
    {[verb |-> "StartOrReloadPlugin", url |-> u] : u \in PluginStrings}
    \cup {[verb |-> "LaunchOrFocusPlugin", url |-> u, floating |-> f] :
             u \in PluginStrings, f \in BOOLEAN}

RunPlugin(location) == [location |-> location, allow_exec_host_cmd |-> FALSE]

start_or_reload_plugin_arm(c, get_current_dir) ==
    LET current_dir == get_current_dir
        parsed == RunPluginLocation_parse(c.url, Some(current_dir))
        res == IF ~parsed.ok
               THEN Err([text |-> "Failed to parse plugin location: {}",
                         shown |-> parsed.err.shown, cause |-> parsed.err.kind])
               ELSE Ok(<<[tag |-> "StartOrReloadPlugin",
                          run_plugin |-> RunPlugin(parsed.val)]>>)
    IN  Outcome(res, <<current_dir>>, <<>>)

launch_or_focus_plugin_arm(c, get_current_dir) ==
    LET current_dir == get_current_dir
        parsed == RunPluginLocation_parse(c.url, Some(current_dir))
        res == IF ~parsed.ok
               THEN Err([text |-> "Failed to parse plugin location: {}",
                         shown |-> parsed.err.shown, cause |-> parsed.err.kind])
               ELSE Ok(<<[tag |-> "LaunchOrFocusPlugin",
                          run_plugin |-> RunPlugin(parsed.val),
                          floating |-> c.floating]>>)
    IN  Outcome(res, <<current_dir>>, <<>>)

(***************************************************************************)
(* The layout collaborator: Layout::stringified_from_path_or_default,      *)
(* Layout::from_str, Layout::tabs and Layout::new_tab.  The raw text of a  *)
(* layout file is kept as what the parser finds in it.                     *)
(***************************************************************************)
TabNames == OptionOf({<<233>>})

\* one tab of a layout file: its name, its pane tree and its floating panes
RawTabs ==
    {[name |-> n, tree |-> t.tree, floating |-> t.floating] :
        n \in TabNames,
        t \in {[tree |-> "A", floating |-> <<>>], [tree |-> "B", floating |-> <<"F">>]}}

RawSwaps == {[tiled |-> <<>>, floating |-> <<"sf">>], [tiled |-> <<"st">>, floating |-> <<>>]}

SwapFiles == OptionOf({[tiled |-> <<"st2">>, floating |-> <<"sf2">>]})

WellFormedLayouts ==
    {[syntax |-> "ok", tabs |-> ts, swap |-> sw] :
        ts \in SeqsUpTo(RawTabs, MaxTabs), sw \in RawSwaps}

BrokenLayouts == {
    [syntax |-> "KdlError"],
    [syntax |-> "KdlDeserializationError", kind |-> "valid node terminator", help |-> None],
    [syntax |-> "KdlDeserializationError", kind |-> "Other", help |-> Some("help text")],
    [syntax |-> "KdlDeserializationError", kind |-> "Other", help |-> None],
    [syntax |-> "Other"]}

RawLayouts == WellFormedLayouts \cup BrokenLayouts

\* what Layout::stringified_from_path_or_default may return
LoadResults ==
    {PErr([variant |-> "IoError"])}
    \cup {POk([path_to_raw_layout |-> "layout.kdl", raw_layout |-> r, swap_layouts |-> sf]) :
             r \in WellFormedLayouts, sf \in SwapFiles}
    \cup {POk([path_to_raw_layout |-> "layout.kdl", raw_layout |-> r, swap_layouts |-> None]) :
             r \in BrokenLayouts}

\* a pane tree parsed with the working directory cwd
Tree(id, cwd) == [tree |-> id, cwd |-> cwd]

Layout_from_str(raw, path_to_raw_layout, swap_layouts, cwd) ==
    IF raw.syntax = "ok"
    THEN POk([tabs |-> [i \in 1..Len(raw.tabs) |->
                           [name |-> raw.tabs[i].name,
                            layout |-> Tree(raw.tabs[i].tree, cwd),
                            floating |-> raw.tabs[i].floating]],
              swap_tiled_layouts |->
                  IF IsSome(swap_layouts) THEN Unwrap(swap_layouts).tiled
                  ELSE raw.swap.tiled,
              swap_floating_layouts |->
                  IF IsSome(swap_layouts) THEN Unwrap(swap_layouts).floating
                  ELSE raw.swap.floating,
              template |-> [layout |-> Tree("root", cwd), floating |-> <<>>]])
    ELSE IF raw.syntax = "KdlDeserializationError"
    THEN PErr([variant |-> raw.syntax, kind |-> raw.kind, help |-> raw.help])
    ELSE PErr([variant |-> raw.syntax])

\* layout.tabs()
Layout_tabs(layout) == layout.tabs

\* layout.new_tab()
Layout_new_tab(layout) == layout.template

(***************************************************************************)
(* CliAction::NewTab.                                                      *)
(***************************************************************************)
LayoutPaths == {Path(FALSE, <<"compact">>), Path(TRUE, <<"l", "dev.kdl">>)}
ArgLayoutDir == Path(TRUE, <<"layouts", "arg">>)
ConfigLayoutDir == Path(TRUE, <<"layouts", "config">>)
DefaultLayoutDir == Path(TRUE, <<"layouts", "default">>)

\* Option<Config>, of which only options.layout_dir is read
Configs == OptionOf({[options |-> [layout_dir |-> d]] : d \in OptionOf({ConfigLayoutDir})})

NewTabCommands ==
    {[verb |-> "NewTab", name |-> n, layout |-> l, layout_dir |-> ld, cwd |-> w] :
        n \in PaneNames, l \in OptionOf(LayoutPaths),
        ld \in OptionOf({ArgLayoutDir}), w \in CwdArgs}

\* mutant: the configuration's directory is tried before the explicit argument
layout_dir_fallback_config_first(layout_dir, config, default_dir) ==
    OptOr(OptOr(IF IsSome(config) THEN Unwrap(config).options.layout_dir ELSE None,
                layout_dir),
          default_dir)

\* layout_dir.or_else(config's layout_dir).or_else(get_layout_dir(default config dir))
layout_dir_fallback(layout_dir, config, default_dir) ==
    OptOr(OptOr(layout_dir,
                IF IsSome(config) THEN Unwrap(config).options.layout_dir ELSE None),
          default_dir)

\* the map_err closure over the ConfigError of Layout::from_str
stringified_error(e, layout_path) ==
    CASE e.variant = "KdlError" ->
            [text |-> "{:?} of the KdlError report",
             shown |-> {to_string_lossy(layout_path)}, cause |-> "KdlError"]
      [] e.variant = "KdlDeserializationError" ->
            [text |-> IF e.kind = "valid node terminator"
                      THEN "Failed to deserialize KDL node. \nPossible reasons:\n{}\n{}\n{}\n{}"
                      ELSE IF IsSome(e.help) THEN Unwrap(e.help)
                      ELSE "Kdl Deserialization Error",
             shown |-> {to_string_lossy(layout_path)}, cause |-> "KdlDeserializationError"]
      [] OTHER -> [text |-> "{}", shown |-> {}, cause |-> e.variant]

\* mutant: the command-line name takes precedence over the layout's
new_tab_name_cli_first(tab_name, name) == OptOr(name, tab_name)

new_tab_name(tab_name, name) == OptOr(tab_name, name)

\* mutant: a layout without tabs is refused instead of using layout.new_tab()
new_tab_from_layout_no_empty(layout, name) ==
    LET tabs == Layout_tabs(layout)
    IN  IF Len(tabs) > 1
        THEN Err([text |-> "Tab layout cannot itself have tabs", shown |-> {},
                  cause |-> "TabCount"])
        ELSE IF tabs # <<>>
        THEN Ok(<<[tag |-> "NewTab", layout |-> Some(tabs[1].layout),
                   floating_panes_layout |-> tabs[1].floating,
                   swap_tiled_layouts |-> Some(layout.swap_tiled_layouts),
                   swap_floating_layouts |-> Some(layout.swap_floating_layouts),
                   name |-> OptOr(tabs[1].name, name)]>>)
        ELSE Err([text |-> "Tab layout has no tabs", shown |-> {}, cause |-> "NoTabs"])

\* mutant: the tab count is compared with >= 1 instead of > 1
new_tab_from_layout_off_by_one(layout, name) ==
    LET tabs == Layout_tabs(layout)
    IN  IF Len(tabs) >= 1
        THEN Err([text |-> "Tab layout cannot itself have tabs", shown |-> {},
                  cause |-> "TabCount"])
        ELSE Ok(<<[tag |-> "NewTab", layout |-> Some(Layout_new_tab(layout).layout),
                   floating_panes_layout |-> Layout_new_tab(layout).floating,
                   swap_tiled_layouts |-> Some(layout.swap_tiled_layouts),
                   swap_floating_layouts |-> Some(layout.swap_floating_layouts),
                   name |-> name]>>)

new_tab_from_layout(layout, name) ==
    LET tabs == Layout_tabs(layout)
    IN  IF Len(tabs) > 1
        THEN Err([text |-> "Tab layout cannot itself have tabs", shown |-> {},
                  cause |-> "TabCount"])
        ELSE IF tabs # <<>>
        THEN Ok(<<[tag |-> "NewTab", layout |-> Some(tabs[1].layout),
                   floating_panes_layout |-> tabs[1].floating,
                   swap_tiled_layouts |-> Some(layout.swap_tiled_layouts),
                   swap_floating_layouts |-> Some(layout.swap_floating_layouts),
                   name |-> new_tab_name(tabs[1].name, name)]>>)
        ELSE Ok(<<[tag |-> "NewTab", layout |-> Some(Layout_new_tab(layout).layout),
                   floating_panes_layout |-> Layout_new_tab(layout).floating,
                   swap_tiled_layouts |-> Some(layout.swap_tiled_layouts),
                   swap_floating_layouts |-> Some(layout.swap_floating_layouts),
                   name |-> name]>>)

new_tab_arm(c, get_current_dir, config, default_dir, load) ==
    LET current_dir == get_current_dir
        cwd == resolve_cwd(c.cwd, current_dir)
    IN  IF IsSome(c.layout)
        THEN LET layout_path == Unwrap(c.layout)
                 layout_dir == layout_dir_fallback(c.layout_dir, config, default_dir)
                 call == [layout_path |-> Some(layout_path), layout_dir |-> layout_dir]
                 parsed == Layout_from_str(load.val.raw_layout, load.val.path_to_raw_layout,
                                           load.val.swap_layouts, cwd)
                 res == IF ~load.ok
                        THEN Err([text |-> "Failed to load layout: {}", shown |-> {},
                                  cause |-> load.err.variant])
                        ELSE IF ~parsed.ok
                        THEN Err(stringified_error(parsed.err, layout_path))
                        ELSE new_tab_from_layout(parsed.val, c.name)
             IN  Outcome(res, <<current_dir>>, <<call>>)
        ELSE Outcome(Ok(<<[tag |-> "NewTab", layout |-> None,
                           floating_panes_layout |-> <<>>,
                           swap_tiled_layouts |-> None, swap_floating_layouts |-> None,
                           name |-> c.name]>>),
                     <<current_dir>>, <<>>)

(***************************************************************************)
(* Action::actions_from_cli: the match over the CliAction.                 *)
(***************************************************************************)
actions_from_cli(c, e) ==
    CASE c.verb = "NewPane" -> new_pane_arm(c, e.current_dir)
      [] c.verb = "Edit" -> edit_arm(c, e.current_dir)
      [] c.verb = "RenamePane" -> rename_pane_arm(c)
      [] c.verb = "RenameTab" -> rename_tab_arm(c)
      [] c.verb = "NewTab" ->
            new_tab_arm(c, e.current_dir, e.config, e.default_layout_dir, e.load)
      [] c.verb = "StartOrReloadPlugin" -> start_or_reload_plugin_arm(c, e.current_dir)
      [] c.verb = "LaunchOrFocusPlugin" -> launch_or_focus_plugin_arm(c, e.current_dir)
      [] OTHER -> simple_arm(c)

(***************************************************************************)
(* Action::shallow_eq and the derived PartialEq of Action: two Actions are *)
(* equal when they are the same variant with equal payloads; SkipConfirm   *)
(* holds a boxed Action, compared the same way.                            *)
(***************************************************************************)
RECURSIVE action_eq(_, _)
action_eq(a, b) ==
    IF a.tag # b.tag THEN FALSE
    ELSE IF a.tag = "SkipConfirm" THEN action_eq(a.action, b.action)
    ELSE a = b

\* mutant: only the variants are compared, for every pair
shallow_eq_variant_only(self, other_action) == self.tag = other_action.tag

shallow_eq(self, other_action) ==
    IF self.tag = "NewTab" /\ other_action.tag = "NewTab" THEN TRUE
    ELSE action_eq(self, other_action)

NewTabAction(layout, floating, swap_tiled, swap_floating, name) ==
    [tag |-> "NewTab", layout |-> layout, floating_panes_layout |-> floating,
     swap_tiled_layouts |-> swap_tiled, swap_floating_layouts |-> swap_floating,
     name |-> name]

\* NewTab actions of differing payloads
SampleNewTabs ==
    {NewTabAction(l, f, st, sf, n) :
        l \in OptionOf({Tree("A", Some(HomeU))}), f \in {<<>>, <<"F">>},
        st \in OptionOf({<<"st">>}), sf \in OptionOf({<<>>}), n \in PaneNames}

\* Actions of other variants, with and without payload
SampleOthers == {
    [tag |-> "Quit"], [tag |-> "Detach"], [tag |-> "NoOp"], [tag |-> "UndoRenameTab"],
    [tag |-> "Write", bytes |-> <<>>], [tag |-> "Write", bytes |-> <<0>>],
    [tag |-> "TabNameInput", bytes |-> <<0>>], [tag |-> "PaneNameInput", bytes |-> <<0>>],
    [tag |-> "DumpScreen", path |-> "/etc/hosts", full |-> TRUE],
    [tag |-> "DumpScreen", path |-> "/etc/hosts", full |-> FALSE],
    [tag |-> "MovePane", direction |-> None], [tag |-> "MovePane", direction |-> Some("Left")],
    [tag |-> "GoToTab", index |-> 0], [tag |-> "GoToTab", index |-> 3],
    [tag |-> "NewPane", direction |-> None, name |-> None],
    [tag |-> "NewPane", direction |-> None, name |-> Some(<<97>>)],
    [tag |-> "NewTiledPane", direction |-> None, run |-> None, name |-> None]}

SkipConfirm(action) == [tag |-> "SkipConfirm", action |-> action]

\* Actions wrapped in at most n SkipConfirm
RECURSIVE Nested(_)
Nested(n) ==
    IF n = 0 THEN SampleNewTabs \cup SampleOthers
    ELSE Nested(n - 1) \cup {SkipConfirm(a) : a \in Nested(n - 1)}

SampleActions == Nested(MaxNesting)

(***************************************************************************)
(* The environments of a call: what get_current_dir returns, the optional  *)
(* Config, the process-wide default layout directory and what the layout   *)
(* loader returns if it is asked.  Only NewTab reads the last three.       *)
(***************************************************************************)
Env(current_dir, config, default_dir, load) ==
    [current_dir |-> current_dir, config |-> config,
     default_layout_dir |-> default_dir, load |-> load]

NoLoad == PErr([variant |-> "IoError"])

PlainEnvs == {Env(d, None, None, NoLoad) : d \in CurrentDirs}

NewTabEnvs(c) ==
    {Env(d, cf, dd, l) :
        d \in CurrentDirs,
        cf \in IF IsSome(c.layout) THEN Configs ELSE {None},
        dd \in IF IsSome(c.layout) THEN OptionOf({DefaultLayoutDir}) ELSE {None},
        l \in IF IsSome(c.layout) THEN LoadResults ELSE {NoLoad}}

NoCommand == [verb |-> "None"]
IdleEnv == Env(HomeU, None, None, NoLoad)

\* before a call: nothing of an earlier call is kept
Init ==
    /\ cli_action = NoCommand
    /\ env = IdleEnv
    /\ result = Ok(<<>>)
    /\ provider_log = <<>>
    /\ loader_log = <<>>
    /\ shallow_args = <<>>
    /\ shallow_result = FALSE

\* no call is under way
Idle == cli_action = NoCommand /\ shallow_args = <<>>

\* one whole call of actions_from_cli
Call(c, e) ==
    LET out == actions_from_cli(c, e)
    IN  /\ cli_action' = c
        /\ env' = e
        /\ result' = out.result
        /\ provider_log' = out.provider
        /\ loader_log' = out.loader
        /\ UNCHANGED <<shallow_args, shallow_result>>

\* the caller consumes the Result; the resolver holds no state across calls
Discard ==
    /\ ~Idle
    /\ cli_action' = NoCommand
    /\ env' = IdleEnv
    /\ result' = Ok(<<>>)
    /\ provider_log' = <<>>
    /\ loader_log' = <<>>
    /\ shallow_args' = <<>>
    /\ shallow_result' = FALSE

CallSimple == Idle /\ \E c \in SimpleCommands, e \in PlainEnvs : Call(c, e)
CallRename == Idle /\ \E c \in RenameCommands, e \in PlainEnvs : Call(c, e)
CallNewPane == Idle /\ \E c \in NewPaneCommands, e \in PlainEnvs : Call(c, e)
CallEdit == Idle /\ \E c \in EditCommands, e \in PlainEnvs : Call(c, e)
CallNewTab == Idle /\ \E c \in NewTabCommands : \E e \in NewTabEnvs(c) : Call(c, e)
CallPlugin == Idle /\ \E c \in PluginCommands, e \in PlainEnvs : Call(c, e)

\* one whole call of self.shallow_eq(other_action)
CallShallowEq ==
    /\ Idle
    /\ \E self \in SampleActions, other_action \in SampleActions :
          /\ shallow_args' = <<self, other_action>>
          /\ shallow_result' = shallow_eq(self, other_action)
    /\ UNCHANGED <<cli_action, env, result, provider_log, loader_log>>

Next ==
    \/ CallSimple
    \/ CallRename
    \/ CallNewPane
    \/ CallEdit
    \/ CallNewTab
    \/ CallPlugin
    \/ CallShallowEq
    \/ Discard

Spec == Init /\ [][Next]_vars

(***************************************************************************)
(* Properties of the resolver.                                             *)
(***************************************************************************)
Returned == cli_action # NoCommand
IsVerb(v) == cli_action.verb = v

\* the working directory a cwd override and the provider's directory give,
\* case by case
ExpectedCwd ==
    IF IsNone(cli_action.cwd) THEN env.current_dir
    ELSE IF Unwrap(cli_action.cwd).abs THEN Unwrap(cli_action.cwd)
    ELSE Path(TRUE, env.current_dir.comps \o Unwrap(cli_action.cwd).comps)

\* C1, as stated: a rename command yields exactly [undo-rename, buffer-input];
\* RenamePane gives [UndoRenamePane, PaneNameInput(name bytes)], RenameTab gives
\* UndoRenameTab and then the tab-name input of a zero byte followed by the
\* name bytes.
C1_RenameAsStated ==
    /\ IsVerb("RenamePane") =>
          result = Ok(<<[tag |-> "UndoRenamePane"],
                        [tag |-> "PaneNameInput", bytes |-> as_bytes(cli_action.name)]>>)
    /\ IsVerb("RenameTab") =>
          result = Ok(<<[tag |-> "UndoRenameTab"],
                        [tag |-> "TabNameInput",
                         bytes |-> <<0>> \o as_bytes(cli_action.name)]>>)

\* C1, amended: a rename command yields exactly two actions in a fixed order;
\* RenamePane gives [UndoRenamePane, PaneNameInput(name bytes)], and RenameTab
\* gives [TabNameInput(<<0>>), TabNameInput(name bytes)]: the zero sentinel
\* byte is a tab-name input of its own that comes first, and no UndoRenameTab
\* action is produced.
C1_RenameTwoActions ==
    /\ IsVerb("RenamePane") =>
          result = Ok(<<[tag |-> "UndoRenamePane"],
                        [tag |-> "PaneNameInput", bytes |-> as_bytes(cli_action.name)]>>)
    /\ IsVerb("RenameTab") =>
          /\ result.ok
          /\ Len(result.actions) = 2
          /\ result.actions[1] = [tag |-> "TabNameInput", bytes |-> <<0>>]
          /\ result.actions[2] =
                [tag |-> "TabNameInput", bytes |-> as_bytes(cli_action.name)]
          /\ \A i \in 1..2 : result.actions[i].tag # "UndoRenameTab"

C1_Witness ==
    /\ IsVerb("RenameTab")
    /\ cli_action.name = <<97, 233>>
    /\ result.ok
    /\ result.actions[2].bytes = <<97, 195, 169>>

\* C2, as stated: every NewPane command produces one action of one of three
\* families: a plugin pane whenever a plugin URL is present, else a terminal
\* pane with Some run command when the command line is non-empty, else an
\* empty pane.
C2_NewPaneAsStated ==
    IsVerb("NewPane") =>
        /\ result.ok
        /\ Len(result.actions) = 1
        /\ LET a == result.actions[1]
           IN  IF IsSome(cli_action.plugin)
               THEN a.tag = (IF cli_action.floating THEN "NewFloatingPluginPane"
                             ELSE "NewTiledPluginPane")
               ELSE /\ a.tag = (IF cli_action.floating THEN "NewFloatingPane"
                                ELSE "NewTiledPane")
                    /\ IsSome(a.run) <=> cli_action.command # <<>>

\* C2, amended: for every NewPane command the plugin URL decides first,
\* whether or not a command line was supplied: a well-formed plugin URL gives
\* one plugin-pane action (floating or tiled), a malformed one gives an error
\* and no action; without a plugin URL a non-empty command line gives one
\* terminal pane carrying Some run command, and an empty one gives one empty
\* pane (run command None) of the requested kind.
C2_NewPaneFamilies ==
    IsVerb("NewPane") =>
        IF IsSome(cli_action.plugin)
        THEN IF Malformed(Unwrap(cli_action.plugin))
             THEN ~result.ok
             ELSE /\ result.ok
                  /\ Len(result.actions) = 1
                  /\ result.actions[1].tag =
                        (IF cli_action.floating THEN "NewFloatingPluginPane"
                         ELSE "NewTiledPluginPane")
        ELSE /\ result.ok
             /\ Len(result.actions) = 1
             /\ result.actions[1].tag =
                   (IF cli_action.floating THEN "NewFloatingPane" ELSE "NewTiledPane")
             /\ IsSome(result.actions[1].run) <=> cli_action.command # <<>>

C2_Witness ==
    /\ IsVerb("NewPane")
    /\ IsSome(cli_action.plugin)
    /\ cli_action.command # <<>>
    /\ cli_action.floating
    /\ result.ok
    /\ result.actions[1].tag = "NewFloatingPluginPane"

\* C3: a tiled plugin pane made from NewPane carries no direction whatever
\* direction came in (its only payload is the plugin location and the name),
\* and a tiled terminal pane carries exactly the incoming direction.
C3_TiledDirection ==
    (IsVerb("NewPane") /\ result.ok /\ ~cli_action.floating) =>
        LET a == result.actions[1]
        IN  IF IsSome(cli_action.plugin)
            THEN /\ a.tag = "NewTiledPluginPane"
                 /\ DOMAIN a = {"tag", "plugin", "name"}
                 /\ DOMAIN a.plugin \in {{"variant", "tag"}, {"variant", "path"}}
            ELSE /\ a.tag = "NewTiledPane"
                 /\ a.direction = cli_action.direction

C3_Witness ==
    /\ IsVerb("NewPane")
    /\ ~cli_action.floating
    /\ IsSome(cli_action.plugin)
    /\ cli_action.direction = Some("Down")
    /\ result.ok
    /\ result.actions[1].tag = "NewTiledPluginPane"

\* C4: NewPane without plugin and with a non-empty command line: the run
\* command has command = first token, args = the other tokens in order, cwd =
\* the resolved working directory, direction = the requested one,
\* hold_on_start = start_suspended, hold_on_close = ~close_on_exit, floating
\* or tiled alike; one token gives empty args.
C4_RunCommand ==
    (IsVerb("NewPane") /\ IsNone(cli_action.plugin) /\ cli_action.command # <<>>) =>
        /\ result.ok
        /\ Len(result.actions) = 1
        /\ IsSome(result.actions[1].run)
        /\ LET r == Unwrap(result.actions[1].run)
               n == Len(cli_action.command)
           IN  /\ r.command = PathBuf_from(cli_action.command[1])
               /\ Len(r.args) = n - 1
               /\ \A i \in 1..(n - 1) : r.args[i] = cli_action.command[i + 1]
               /\ r.cwd = Some(ExpectedCwd)
               /\ r.direction = cli_action.direction
               /\ r.hold_on_start = cli_action.start_suspended
               /\ r.hold_on_close = ~cli_action.close_on_exit
               /\ (n = 1 => r.args = <<>>)

C4_Witness ==
    /\ IsVerb("NewPane")
    /\ IsNone(cli_action.plugin)
    /\ cli_action.command = <<"/bin/sh", "-l", "/bin/sh">>
    /\ cli_action.close_on_exit
    /\ cli_action.floating
    /\ result.ok
    /\ Unwrap(result.actions[1].run).args = <<"-l", "/bin/sh">>

\* C5: in NewPane and Edit the working directory is always Some: the
\* provider's directory without an override, the override under the provider's
\* directory when it is relative, the override itself when it is absolute.
\* Edit joins a relative file under it and leaves an absolute file unchanged;
\* edit(file = src/main.txt, cwd = proj) under /home/u gives
\* EditFile(/home/u/proj/src/main.txt, line, Some(/home/u/proj), direction,
\* floating).
C5_PathResolution ==
    /\ (IsVerb("NewPane") /\ IsNone(cli_action.plugin) /\ cli_action.command # <<>>) =>
          Unwrap(result.actions[1].run).cwd = Some(ExpectedCwd)
    /\ (IsVerb("NewPane") /\ IsSome(cli_action.plugin) /\ result.ok
           /\ result.actions[1].plugin.variant = "File") =>
          result.actions[1].plugin.path =
              IF Unwrap(cli_action.plugin).path.abs THEN Unwrap(cli_action.plugin).path
              ELSE Path(TRUE, ExpectedCwd.comps \o Unwrap(cli_action.plugin).path.comps)
    /\ IsVerb("Edit") =>
          /\ result.ok
          /\ Len(result.actions) = 1
          /\ LET a == result.actions[1]
             IN  /\ a.tag = "EditFile"
                 /\ a.cwd = Some(ExpectedCwd)
                 /\ a.file = IF cli_action.file.abs THEN cli_action.file
                             ELSE Path(TRUE, ExpectedCwd.comps \o cli_action.file.comps)
                 /\ a.line_number = cli_action.line_number
                 /\ a.direction = cli_action.direction
                 /\ a.floating = cli_action.floating
                 /\ (/\ cli_action.file = RelFile
                     /\ cli_action.cwd = Some(RelDir)
                     /\ env.current_dir = HomeU) =>
                        /\ to_string_lossy(a.file) = "/home/u/proj/src/main.txt"
                        /\ to_string_lossy(Unwrap(a.cwd)) = "/home/u/proj"

C5_Witness ==
    /\ IsVerb("Edit")
    /\ cli_action.file = RelFile
    /\ cli_action.cwd = Some(RelDir)
    /\ cli_action.line_number = Some(10)
    /\ ~cli_action.floating
    /\ env.current_dir = HomeU
    /\ result.ok
    /\ to_string_lossy(result.actions[1].file) = "/home/u/proj/src/main.txt"

\* the plugin URL of the command, if it carries one
PluginOf ==
    IF IsVerb("NewPane") THEN cli_action.plugin
    ELSE IF IsVerb("StartOrReloadPlugin") \/ IsVerb("LaunchOrFocusPlugin")
    THEN Some(cli_action.url)
    ELSE None

\* the command carries a layout path
HasLayout == IsVerb("NewTab") /\ IsSome(cli_action.layout)

\* the layout file was loaded and parsed
LayoutParsed == HasLayout /\ env.load.ok /\ env.load.val.raw_layout.syntax = "ok"

\* the tabs the layout file defines
FileTabs == env.load.val.raw_layout.tabs

\* C6: resolution fails only on (i) a malformed plugin location, (ii) a layout
\* loading or parsing error, (iii) a layout with more than one tab; a command
\* with neither plugin URL nor layout path resolves to a non-empty action
\* sequence; the result is the whole action sequence or an error string,
\* never both.
C6_FailureCauses ==
    Returned =>
        /\ ~result.ok =>
              /\ \/ IsSome(PluginOf) /\ Malformed(Unwrap(PluginOf))
                 \/ HasLayout /\ ~LayoutParsed
                 \/ LayoutParsed /\ Len(FileTabs) > 1
              /\ DOMAIN result = {"ok", "err"}
        /\ result.ok =>
              /\ DOMAIN result = {"ok", "actions"}
              /\ Len(result.actions) >= 1
        /\ (IsNone(PluginOf) /\ ~HasLayout) => result.ok

C6_Witness ==
    /\ HasLayout
    /\ env.load.ok
    /\ env.load.val.raw_layout.syntax = "KdlDeserializationError"
    /\ ~result.ok
    /\ result.err.cause = "KdlDeserializationError"

\* C7: NewTab with a layout path whose parsed layout has more than one tab
\* returns the error "Tab layout cannot itself have tabs" and no action,
\* whatever name, cwd and layout_dir are; a layout with zero tabs or one tab
\* never gives this error and yields exactly one NewTab action.
C7_TabCount ==
    LayoutParsed =>
        IF Len(FileTabs) > 1
        THEN /\ ~result.ok
             /\ result.err.text = "Tab layout cannot itself have tabs"
        ELSE /\ result.ok
             /\ Len(result.actions) = 1
             /\ result.actions[1].tag = "NewTab"

C7_Witness ==
    /\ LayoutParsed
    /\ Len(FileTabs) = 2
    /\ IsSome(cli_action.name)
    /\ IsSome(cli_action.cwd)
    /\ IsSome(cli_action.layout_dir)
    /\ ~result.ok
    /\ result.err.text = "Tab layout cannot itself have tabs"

\* the layout Layout::from_str returns for the loaded file
ParsedLayout ==
    Layout_from_str(env.load.val.raw_layout, env.load.val.path_to_raw_layout,
                    env.load.val.swap_layouts, Some(ExpectedCwd)).val

\* C8: NewTab with a layout of exactly one tab carries that tab's pane tree
\* and floating panes, the layout's swap-tiled and swap-floating lists (both
\* Some) and the tab's name if it has one, else the command-line name; with
\* zero tabs the name is the command-line name; without a layout path the
\* action is NewTab(None, [], None, None, name).
C8_NewTabPayload ==
    IsVerb("NewTab") =>
        IF ~HasLayout
        THEN result = Ok(<<[tag |-> "NewTab", layout |-> None,
                            floating_panes_layout |-> <<>>,
                            swap_tiled_layouts |-> None,
                            swap_floating_layouts |-> None,
                            name |-> cli_action.name]>>)
        ELSE (LayoutParsed /\ Len(FileTabs) <= 1) =>
                LET a == result.actions[1]
                IN  /\ a.swap_tiled_layouts = Some(ParsedLayout.swap_tiled_layouts)
                    /\ a.swap_floating_layouts = Some(ParsedLayout.swap_floating_layouts)
                    /\ IsSome(a.layout)
                    /\ IF Len(FileTabs) = 1
                       THEN /\ a.layout = Some(Tree(FileTabs[1].tree, Some(ExpectedCwd)))
                            /\ a.floating_panes_layout = FileTabs[1].floating
                            /\ a.name = IF IsSome(FileTabs[1].name) THEN FileTabs[1].name
                                        ELSE cli_action.name
                       ELSE a.name = cli_action.name

C8_Witness ==
    /\ LayoutParsed
    /\ Len(FileTabs) = 1
    /\ FileTabs[1].name = Some(<<233>>)
    /\ cli_action.name = Some(<<97>>)
    /\ result.ok
    /\ result.actions[1].name = Some(<<233>>)
    /\ result.actions[1].floating_panes_layout = <<"F">>

\* C9: a call invokes get_current_dir exactly once for NewPane, Edit, NewTab,
\* StartOrReloadPlugin and LaunchOrFocusPlugin, whether it succeeds or fails,
\* and not at all for any other command.
C9_ProviderCalls ==
    Returned =>
        Len(provider_log) =
            IF cli_action.verb \in {"NewPane", "Edit", "NewTab", "StartOrReloadPlugin",
                                    "LaunchOrFocusPlugin"}
            THEN 1 ELSE 0

C9_Witness ==
    /\ IsVerb("NewTab")
    /\ HasLayout
    /\ ~result.ok
    /\ provider_log = <<env.current_dir>>

C11_LayoutDirFallback ==
    HasLayout =>
        /\ Len(loader_log) = 1
        /\ loader_log[1].layout_path = cli_action.layout
        /\ loader_log[1].layout_dir =
              IF IsSome(cli_action.layout_dir) THEN cli_action.layout_dir
              ELSE IF IsSome(env.config) /\ IsSome(Unwrap(env.config).options.layout_dir)
              THEN Unwrap(env.config).options.layout_dir
              ELSE env.default_layout_dir

C11_Witness ==
    /\ HasLayout
    /\ IsNone(cli_action.layout_dir)
    /\ env.config = Some([options |-> [layout_dir |-> Some(ConfigLayoutDir)]])
    /\ env.default_layout_dir = Some(DefaultLayoutDir)
    /\ loader_log = <<[layout_path |-> cli_action.layout,
                       layout_dir |-> Some(ConfigLayoutDir)]>>

\* the two Actions of the shallow_eq call
Self == shallow_args[1]
Other == shallow_args[2]

\* the Action inside all SkipConfirm wrappers
RECURSIVE Innermost(_)
Innermost(a) == IF a.tag = "SkipConfirm" THEN Innermost(a.action) ELSE a

\* the number of SkipConfirm wrappers
RECURSIVE Depth(_)
Depth(a) == IF a.tag = "SkipConfirm" THEN 1 + Depth(a.action) ELSE 0

\* C12: shallow_eq is true for any two NewTab actions whatever their layout,
\* floating, swap-layout and name payloads; for every other pair, NewTab
\* against another variant and SkipConfirm around NewTab included, it is
\* exactly full structural equality: true when both are the same variant
\* under the same number of SkipConfirm with equal payloads, false otherwise.
C12_ShallowEq ==
    shallow_args # <<>> =>
        IF Self.tag = "NewTab" /\ Other.tag = "NewTab"
        THEN shallow_result = TRUE
        ELSE /\ shallow_result = action_eq(Self, Other)
             /\ shallow_result <=>
                   /\ Depth(Self) = Depth(Other)
                   /\ Innermost(Self).tag = Innermost(Other).tag
                   /\ Innermost(Self) = Innermost(Other)

C12_Witness ==
    /\ shallow_args # <<>>
    /\ Self.tag = "NewTab"
    /\ Other.tag = "NewTab"
    /\ Self.name # Other.name
    /\ Self.layout # Other.layout
    /\ shallow_result = TRUE

\* a SkipConfirm pair around differing NewTab actions is not shallow-equal
C12_WrappedWitness ==
    /\ shallow_args # <<>>
    /\ Self.tag = "SkipConfirm"
    /\ Other.tag = "SkipConfirm"
    /\ Self.action.tag = "NewTab"
    /\ Other.action.tag = "NewTab"
    /\ Self.action # Other.action
    /\ shallow_result = FALSE

====
